---- MODULE Spec2Model ----
(***************************************************************************)
(* A model of the video editor's export renderer (core/video_renderer.py)  *)
(* and of its timeline (core/timeline_manager.py, models/*.py).            *)
(*                                                                         *)
(* Progress fractions are kept in percent (0.2 is 20, 1.0 is 100).         *)
(* Times are kept in half seconds (5.0 s is 10, 0.5 s is 1).               *)
(***************************************************************************)
EXTENDS Integers, Sequences, FiniteSets, TLC

VARIABLES
    \* ---- VideoRenderer (core/video_renderer.py) ----
    is_rendering,     \* self.is_rendering
    render_progress,  \* self.render_progress, in percent
    render_status,    \* self.render_status
    output_path,      \* self.output_path
    temp_dir,         \* self.temp_dir: 0 for "" or the number of a directory
    threads,          \* one record per started _render_video_thread
    dirs,             \* the temporary directories that exist on disk
    made,             \* how many directories mkdtemp has created so far
    last_call,        \* the last public call on the renderer and what it returned
    \* ---- TimelineManager (core/timeline_manager.py) ----
    layers,           \* self.layers: a sequence of layer objects
    current_time,     \* self.current_time
    total_duration,   \* self.total_duration
    fps,              \* self.fps
    selected_layer,   \* self.selected_layer: NoLayer or a reference to a layer
    image_transition, \* self.image_transition
    \* ---- the caller of the timeline ----
    returned,         \* the last call whose result the caller keeps: [op, arg, value]
    \* ---- PreviewCanvas (ui/preview_canvas.py) ----
    canvas_selected,  \* self.selected_layer: NoLayer or a reference to a layer
    canvas_time       \* self.current_time

rvars == <<is_rendering, render_progress, render_status, output_path, temp_dir,
           threads, dirs, made, last_call>>
tvars == <<layers, current_time, total_duration, fps, selected_layer,
           image_transition>>
uvars == <<canvas_selected, canvas_time>>
vars == <<rvars, tvars, returned, uvars>>

\* ------------------------------------------------------------------ bounds
\* temporary directories mkdtemp may create (so: render threads started)
MaxRenders == 2
\* layers a timeline may hold
MaxLayers == 2
\* move_layer_up and move_layer_down keep z_index within -MaxZ..MaxZ
MaxZ == 2
\* add_sequential_images is not called for a sequence ending after MaxTime
MaxTime == 24

\* =====================================================================
\*                            VideoRenderer
\* =====================================================================

\* Python's None, True and False where a call returns them
None == "None"
True == "True"
False == "False"

\* the output paths the caller asks for: successive exports go to different files
Paths == <<"a.mp4", "b.mp4">>
NextPath == Paths[(made % Len(Paths)) + 1]

\* the status strings _render_video_thread passes to _update_progress
StatusInit == "Initializing render..."
StatusCommand == "Creating FFmpeg command..."
StatusStart == "Starting video render..."
StatusComplete == "Render complete!"
StatusFailed == "Render failed!"
StatusError == "Render error"
StatusCancelled == "Cancelled"

Terminal == {StatusComplete, StatusFailed, StatusError}

\* VideoRenderer.__init__
RendererInit ==
    /\ is_rendering = FALSE
    /\ render_progress = 0
    /\ render_status = ""
    /\ output_path = ""
    /\ temp_dir = 0
    /\ threads = <<>>
    /\ dirs = {}
    /\ made = 0
    /\ last_call = [op |-> "init", ret |-> None]

\* a thread that render_video has just started; encoder is what
\* _execute_ffmpeg_command met once it has run
NewThread(dir, has_cb) ==
    [pc |-> "init", dir |-> dir, has_cb |-> has_cb, log |-> <<>>,
     success |-> FALSE, cancelled |-> FALSE, encoder |-> "none"]

Alive(i) == threads[i].pc # "done"

\* render_video refused because a render is in progress
RenderVideoRejected ==
    /\ last_call' = [op |-> "render_video", ret |-> False]
    /\ UNCHANGED <<is_rendering, render_progress, render_status, output_path,
                   temp_dir, threads, dirs, made>>

\* render_video past the is_rendering check. fail: "none", or the call of the
\* try block that raises ("mkdtemp", "start")
RenderVideoStart(path, has_cb, fail) ==
    /\ made < MaxRenders
    /\ render_progress' = 0
    /\ output_path' = path
    /\ UNCHANGED render_status
    /\ IF fail = "mkdtemp"
       THEN /\ is_rendering' = FALSE
            /\ UNCHANGED <<temp_dir, dirs, made, threads>>
            /\ last_call' = [op |-> "render_video", ret |-> False]
       ELSE /\ made' = made + 1
            /\ temp_dir' = made + 1
            /\ dirs' = dirs \cup {made + 1}
            /\ IF fail = "start"
               THEN /\ is_rendering' = FALSE
                    /\ UNCHANGED threads
                    /\ last_call' = [op |-> "render_video", ret |-> False]
               ELSE /\ is_rendering' = TRUE
                    /\ threads' = Append(threads, NewThread(made + 1, has_cb))
                    /\ last_call' = [op |-> "render_video", ret |-> True]

\* render_video with the is_rendering check left out
render_video_unguarded(path, has_cb, fail) ==
    RenderVideoStart(path, has_cb, fail)

\* VideoRenderer.render_video
render_video(path, has_cb, fail) ==
    IF is_rendering
    THEN RenderVideoRejected
    ELSE RenderVideoStart(path, has_cb, fail)

\* VideoRenderer.cancel_render
cancel_render ==
    /\ is_rendering' = FALSE
    /\ render_progress' = 0
    /\ render_status' = StatusCancelled
    /\ threads' = [i \in DOMAIN threads |->
                     IF Alive(i) THEN [threads[i] EXCEPT !.cancelled = TRUE]
                     ELSE threads[i]]
    /\ last_call' = [op |-> "cancel_render", ret |-> None]
    /\ UNCHANGED <<output_path, temp_dir, dirs, made>>

\* VideoRenderer.get_render_status
get_render_status ==
    [is_rendering |-> is_rendering, progress |-> render_progress,
     status |-> render_status, output_path |-> output_path]

\* _update_progress(progress, status, callback) called by thread i; raises
\* says whether the callback raises. On return the thread is at pc next, on
\* an exception at pc onraise.
UpdateProgress(i, progress, status, raises, next, onraise) ==
    /\ render_progress' = progress
    /\ render_status' = status
    /\ threads' = [threads EXCEPT
          ![i].log = IF threads[i].has_cb
                     THEN Append(threads[i].log, <<progress, status>>)
                     ELSE threads[i].log,
          ![i].pc = IF threads[i].has_cb /\ raises THEN onraise ELSE next]
    /\ last_call' = [op |-> "thread", ret |-> None]
    /\ UNCHANGED <<is_rendering, output_path, temp_dir, dirs, made>>

\* a step of thread i that touches no field of the renderer
LocalStep(i, next) ==
    /\ threads' = [threads EXCEPT ![i].pc = next]
    /\ last_call' = [op |-> "thread", ret |-> None]
    /\ UNCHANGED <<is_rendering, render_progress, render_status, output_path,
                   temp_dir, dirs, made>>

\* _render_video_thread, line 87
ThreadInit(i, raises) ==
    /\ threads[i].pc = "init"
    /\ UpdateProgress(i, 0, StatusInit, raises, "ass", "except")

\* _render_video_thread, lines 90-93: _create_ass_from_timeline catches every
\* exception itself, then the "subtitle built" progress update
ThreadSubtitle(i, raises) ==
    /\ threads[i].pc = "ass"
    /\ UpdateProgress(i, 20, StatusCommand, raises, "build", "except")

\* _render_video_thread, lines 96-101: _build_ffmpeg_command, which may raise,
\* then the "command built" progress update
ThreadCommand(i, build_raises, raises) ==
    /\ threads[i].pc = "build"
    /\ IF build_raises
       THEN LocalStep(i, "except")
       ELSE UpdateProgress(i, 30, StatusStart, raises, "exec", "except")

\* _execute_ffmpeg_command: True exactly when ffmpeg is found and exits with 0
\* outcome: "ok", "nonzero", "notfound", "exception"
ExecuteFfmpegCommand(outcome) == outcome = "ok"

\* _render_video_thread, lines 104-109: the encoder run and the terminal
\* progress update that reports its result
ThreadExecute(i, outcome, raises) ==
    /\ threads[i].pc = "exec"
    /\ render_progress' = IF ExecuteFfmpegCommand(outcome) THEN 100 ELSE 0
    /\ render_status' = IF ExecuteFfmpegCommand(outcome) THEN StatusComplete
                        ELSE StatusFailed
    /\ threads' = [threads EXCEPT
          ![i].success = ExecuteFfmpegCommand(outcome),
          ![i].encoder = outcome,
          ![i].log = IF threads[i].has_cb
                     THEN Append(threads[i].log, <<render_progress', render_status'>>)
                     ELSE threads[i].log,
          ![i].pc = IF threads[i].has_cb /\ raises THEN "except" ELSE "finally"]
    /\ last_call' = [op |-> "thread", ret |-> None]
    /\ UNCHANGED <<is_rendering, output_path, temp_dir, dirs, made>>

\* _render_video_thread, lines 111-113: the except block; an exception of the
\* callback here leaves the thread through the finally block all the same
ThreadExcept(i) ==
    /\ threads[i].pc = "except"
    /\ \E raises \in BOOLEAN :
          UpdateProgress(i, 0, StatusError, raises, "finally", "finally")

\* a finally block that leaves is_rendering as it is
ThreadFinallyKeepsFlag(i) ==
    /\ threads[i].pc = "finally"
    /\ dirs' = dirs \ {temp_dir}
    /\ threads' = [threads EXCEPT ![i].pc = "done"]
    /\ last_call' = [op |-> "thread", ret |-> None]
    /\ UNCHANGED <<is_rendering, render_progress, render_status, output_path,
                   temp_dir, made>>

\* _render_video_thread, lines 114-121: the finally block removes the
\* directory self.temp_dir names now
ThreadFinally(i) ==
    /\ threads[i].pc = "finally"
    /\ is_rendering' = FALSE
    /\ dirs' = dirs \ {temp_dir}
    /\ threads' = [threads EXCEPT ![i].pc = "done"]
    /\ last_call' = [op |-> "thread", ret |-> None]
    /\ UNCHANGED <<render_progress, render_status, output_path, temp_dir, made>>

\* VideoRenderer._render_video_thread: one step of thread i
render_video_thread(i) ==
    \/ \E raises \in BOOLEAN : ThreadInit(i, raises)
    \/ \E raises \in BOOLEAN : ThreadSubtitle(i, raises)
    \/ \E build_raises, raises \in BOOLEAN : ThreadCommand(i, build_raises, raises)
    \/ \E outcome \in {"ok", "nonzero", "notfound", "exception"}, raises \in BOOLEAN :
          ThreadExecute(i, outcome, raises)
    \/ ThreadExcept(i)
    \/ ThreadFinally(i)

RenderVideoCall ==
    /\ \E has_cb \in BOOLEAN, fail \in {"none", "mkdtemp", "start"} :
          render_video(NextPath, has_cb, fail)
    /\ UNCHANGED <<tvars, returned, uvars>>

CancelRenderCall == cancel_render /\ UNCHANGED <<tvars, returned, uvars>>

ThreadStep ==
    /\ \E i \in DOMAIN threads : render_video_thread(i)
    /\ UNCHANGED <<tvars, returned, uvars>>

RendererNext ==
    \/ RenderVideoCall
    \/ CancelRenderCall
    \/ ThreadStep

\* the steps of the thread of the i-th accepted render_video call
ThreadStepOf(i) ==
    /\ i \in DOMAIN threads
    /\ render_video_thread(i)
    /\ UNCHANGED <<tvars, returned, uvars>>

\* every started thread is daemon-scheduled by the interpreter: while it has
\* a step to take (the encoder run returns, a callback returns or raises) it
\* takes one
ThreadsScheduled == \A i \in 1..MaxRenders : WF_vars(ThreadStepOf(i))

\* ------------------------------------------------ renderer: properties

\* the statuses thread i's callback has received, in order
Delivered(i) == [k \in DOMAIN threads[i].log |-> threads[i].log[k][2]]

\* the progress fractions thread i's callback has received, in order
Fractions(i) == [k \in DOMAIN threads[i].log |-> threads[i].log[k][1]]

TerminalsDelivered(i) ==
    Cardinality({k \in DOMAIN threads[i].log : threads[i].log[k][2] \in Terminal})

\* the place of a status in the fixed order; the terminal ones come last
Rank(status) ==
    CASE status = StatusInit -> 1
      [] status = StatusCommand -> 2
      [] status = StatusStart -> 3
      [] OTHER -> 4

\* C1: at most one background render thread is active at any time.
C1_AtMostOneThread ==
    Cardinality({i \in DOMAIN threads : Alive(i)}) <= 1

\* C2: for every accepted render_video call with a callback, the statuses
\* reach the callback in the fixed order, the non-terminal ones before any
\* terminal one, and exactly one terminal status is delivered for the call.
C2_OrderedOneTerminal ==
    \A i \in DOMAIN threads :
        threads[i].has_cb =>
            /\ \A j, k \in DOMAIN threads[i].log :
                  j < k => /\ Rank(Delivered(i)[j]) < Rank(Delivered(i)[k])
            /\ TerminalsDelivered(i) <= 1
            /\ threads[i].pc = "done" => TerminalsDelivered(i) = 1

\* C3: once cancel_render was called during a render, no progress update of
\* that render's thread replaces the status 'Cancelled'.
C3_CancelledSettles ==
    [][\A i \in DOMAIN threads :
          (/\ threads[i].cancelled
           /\ threads'[i].pc # threads[i].pc
           /\ get_render_status.status = StatusCancelled)
          => get_render_status'.status = StatusCancelled]_vars

\* C4: the temporary directory an accepted render_video call created is
\* removed once that call's thread has exited.
C4_NoTempDirLeak ==
    \A i \in DOMAIN threads :
        threads[i].pc = "done" => threads[i].dir \notin dirs

\* C5: a render_video call made while is_rendering is true returns False,
\* leaves is_rendering, render_progress, render_status, output_path and
\* temp_dir as they were and starts no thread.
C5_RejectedCallChangesNothing ==
    [][(is_rendering /\ last_call'.op = "render_video")
          => /\ last_call'.ret = False
             /\ UNCHANGED <<is_rendering, render_progress, render_status,
                            output_path, temp_dir, threads, dirs>>]_vars

\* C5 witness: a render_video call has just been refused during a render.
C5_Witness ==
    /\ is_rendering
    /\ last_call = [op |-> "render_video", ret |-> False]
    /\ \E i \in DOMAIN threads : Alive(i)

\* C6: for a render whose encoder run succeeded, the progress fractions the
\* callback received never decrease, the last one is 1.0 and exactly one
\* terminal callback, 'Render complete!', was delivered.
C6_SuccessfulProgress ==
    \A i \in DOMAIN threads :
        (threads[i].has_cb /\ threads[i].success /\ threads[i].pc = "done") =>
            /\ \A j, k \in DOMAIN threads[i].log :
                  j < k => Fractions(i)[j] <= Fractions(i)[k]
            /\ Fractions(i)[Len(threads[i].log)] = 100
            /\ TerminalsDelivered(i) = 1
            /\ Delivered(i)[Len(threads[i].log)] = StatusComplete

\* C28: every accepted render_video call eventually has its thread exited,
\* with is_rendering false and, when a callback was passed, a terminal status
\* delivered to it, whichever path the thread took.
C28_RenderTerminates ==
    \A i \in 1..MaxRenders :
        (i \in DOMAIN threads) ~>
            (/\ i \in DOMAIN threads
             /\ threads[i].pc = "done"
             /\ ~is_rendering
             /\ threads[i].has_cb => TerminalsDelivered(i) >= 1)

\* C28 witness: a thread with a callback has exited through the except
\* block: 'Render error: ...' was delivered and is_rendering is false.
C28_Witness ==
    \E i \in DOMAIN threads :
        /\ threads[i].pc = "done"
        /\ threads[i].has_cb
        /\ ~threads[i].success
        /\ Delivered(i)[Len(threads[i].log)] = StatusError
        /\ ~is_rendering

\* =====================================================================
\*                           TimelineManager
\* =====================================================================

\* A layer object is a record: obj is the identity of the Python object, class
\* its class ("text", "image", "box"), every other field an attribute of the
\* object. Of the style attributes, text, fit_mode and fill_color stand for the
\* rest of their class (font_*, bg_*, rotation, flip_*, border_*, ...), which
\* the code carries in exactly the same way. A layer_id f"text_{n}" is the
\* pair <<"text", n>>.

Bookkeeping == {"obj", "class"}

\* None where a layer_id, and where a layer, is expected
NoId == <<"None", 0>>
NoLayer == [obj |-> 0, layer_id |-> NoId]

\* hasattr(layer, name)
HasAttr(layer, name) == name \in DOMAIN layer /\ name \notin Bookkeeping

\* setattr(layer, name, value) on an object that has the attribute
SetAttr(layer, name, value) ==
    [k \in DOMAIN layer |-> IF k = name THEN value ELSE layer[k]]

\* setattr(layer, name, value), which creates the attribute when it is new
PutAttr(layer, name, value) ==
    [k \in DOMAIN layer \cup {name} |-> IF k = name THEN value ELSE layer[k]]

\* BaseLayer.__init__
BaseLayer(obj, class, layer_id, start_time, end_time) ==
    [obj |-> obj, class |-> class, layer_id |-> layer_id,
     start_time |-> start_time, end_time |-> end_time,
     x |-> 100, y |-> 100, width |-> 200, height |-> 100,
     visible |-> TRUE, opacity |-> 100, z_index |-> 0]

\* TextLayer.__init__
TextLayer(obj, layer_id, text, start_time, end_time) ==
    BaseLayer(obj, "text", layer_id, start_time, end_time) @@ [text |-> text]

\* An image is kept as the size it was resized to and the box cut out of it.
\* NoImage is None where an image is expected.
NoImage == [size |-> <<0, 0>>, box |-> <<0, 0, 0, 0>>]

\* Image.open(path): the image files are 400 by 200 pixels
ImageFile(path) == [size |-> <<400, 200>>, box |-> <<0, 0, 400, 200>>]

\* os.path.exists(image_path): the files named exist, the empty path does not
FileExists(path) == path # ""

\* Image.resize((new_w, new_h))
Resized(new_w, new_h) == [size |-> <<new_w, new_h>>, box |-> <<0, 0, new_w, new_h>>]

\* _update_scaled_image, the scale of "fit" (smaller is TRUE) and of "fill" and
\* "cover": the size the original is resized to, keeping its aspect ratio
ScaledSize(layer, smaller) ==
    LET ow == layer.original_image.size[1]
        oh == layer.original_image.size[2]
        by_width == IF smaller THEN layer.width * oh <= layer.height * ow
                               ELSE layer.width * oh >= layer.height * ow
    IN IF by_width THEN <<layer.width, (oh * layer.width) \div ow>>
       ELSE <<(ow * layer.height) \div oh, layer.height>>

\* the layer keeps the scaled image it has
update_scaled_image_skipped(layer) == layer

\* ImageLayer._update_scaled_image
update_scaled_image(layer) ==
    IF layer.original_image = NoImage THEN layer
    ELSE CASE layer.fit_mode = "original" ->
                [layer EXCEPT !.scaled_image = layer.original_image]
           [] layer.fit_mode = "stretch" ->
                [layer EXCEPT !.scaled_image = Resized(layer.width, layer.height)]
           [] layer.fit_mode = "fit" ->
                [layer EXCEPT !.scaled_image =
                    Resized(ScaledSize(layer, TRUE)[1], ScaledSize(layer, TRUE)[2])]
           [] layer.fit_mode = "fill" ->
                [layer EXCEPT !.scaled_image =
                    Resized(ScaledSize(layer, FALSE)[1], ScaledSize(layer, FALSE)[2])]
           [] layer.fit_mode = "cover" ->
                LET new == ScaledSize(layer, FALSE)
                    left == (new[1] - layer.width) \div 2
                    top == (new[2] - layer.height) \div 2
                IN [layer EXCEPT !.scaled_image =
                       [size |-> new,
                        box |-> <<left, top, left + layer.width, top + layer.height>>]]
           [] OTHER -> layer

\* ImageLayer.load_image
load_image(layer, image_path) ==
    update_scaled_image([layer EXCEPT !.image_path = image_path,
                                      !.original_image = ImageFile(image_path)])

\* ImageLayer.__init__
ImageLayer(obj, layer_id, image_path, start_time, end_time) ==
    LET layer == BaseLayer(obj, "image", layer_id, start_time, end_time)
                    @@ [image_path |-> image_path, original_image |-> NoImage,
                        scaled_image |-> NoImage, fit_mode |-> "cover",
                        rotation |-> 0, flip_horizontal |-> FALSE,
                        flip_vertical |-> FALSE]
    IN IF FileExists(image_path) THEN load_image(layer, image_path) ELSE layer

\* BoxLayer.__init__
BoxLayer(obj, layer_id, start_time, end_time) ==
    BaseLayer(obj, "box", layer_id, start_time, end_time)
        @@ [fill_color |-> "#FF0000"]

\* the default times of the constructors and factories: 0.0 and 5.0 seconds
DefaultTimes == <<0, 10>>

\* BaseLayer.set_position
set_position(layer, x, y) == [layer EXCEPT !.x = x, !.y = y]

\* BaseLayer.set_size
set_size(layer, width, height) == [layer EXCEPT !.width = width, !.height = height]

\* TextLayer.set_property, ImageLayer.set_property, BoxLayer.set_property:
\* the layer afterwards
set_property(layer, name, value) ==
    IF ~HasAttr(layer, name) THEN layer
    ELSE IF layer.class = "image" /\ name \in {"width", "height", "fit_mode"}
    THEN update_scaled_image(SetAttr(layer, name, value))
    ELSE SetAttr(layer, name, value)

\* TextLayer.export_data, ImageLayer.export_data, BoxLayer.export_data: the
\* keys of the dict
ExportedKeys(class) ==
    {"type", "layer_id", "x", "y", "width", "height", "start_time", "end_time",
     "opacity", "visible"}
    \cup (CASE class = "text" -> {"text"}
            [] class = "image" -> {"image_path", "fit_mode", "rotation",
                                   "flip_horizontal", "flip_vertical"}
            [] class = "box" -> {"fill_color"})

\* TextLayer.export_data, ImageLayer.export_data, BoxLayer.export_data
export_data(layer) ==
    [k \in ExportedKeys(layer.class) |->
        IF k = "type" THEN layer.class ELSE layer[k]]

Max(a, b) == IF a >= b THEN a ELSE b
Min(a, b) == IF a <= b THEN a ELSE b

\* list.sort(key=lambda layer: layer.z_index) is stable: a layer is put behind
\* the layers before it whose z_index is not larger
RECURSIVE InsertByZ(_, _)
InsertByZ(sorted, layer) ==
    IF sorted = <<>> THEN <<layer>>
    ELSE IF Head(sorted).z_index <= layer.z_index
         THEN <<Head(sorted)>> \o InsertByZ(Tail(sorted), layer)
         ELSE <<layer>> \o sorted

\* TimelineManager._sort_layers_by_z_index
RECURSIVE sort_layers_by_z_index(_)
sort_layers_by_z_index(ls) ==
    IF ls = <<>> THEN <<>>
    ELSE InsertByZ(sort_layers_by_z_index(SubSeq(ls, 1, Len(ls) - 1)), ls[Len(ls)])

\* the objects the timeline refers to
ObjsOf(ls) == {ls[i].obj : i \in DOMAIN ls}
SelectedObjs ==
    (IF selected_layer = NoLayer THEN {} ELSE {selected_layer.obj})
        \cup (IF canvas_selected = NoLayer THEN {} ELSE {canvas_selected.obj})

\* a new Python object: one that is none of the objects in use
FreshObj(used) == CHOOSE n \in 1..(Cardinality(used) + 1) : n \notin used

\* the reference self.selected_layer holds to a layer
Ref(layer) == [obj |-> layer.obj, layer_id |-> layer.layer_id]

\* the position in ls of the first layer with this layer_id, 0 when there is none
IndexOf(ls, layer_id) ==
    IF \E i \in DOMAIN ls : ls[i].layer_id = layer_id
    THEN CHOOSE i \in DOMAIN ls :
            /\ ls[i].layer_id = layer_id
            /\ \A j \in 1..(i - 1) : ls[j].layer_id # layer_id
    ELSE 0

\* TimelineManager.get_layer
get_layer(layer_id) ==
    IF IndexOf(layers, layer_id) = 0 THEN NoLayer
    ELSE layers[IndexOf(layers, layer_id)]

\* is_visible_at_time with the visible flag left out
is_visible_at_time_unflagged(layer, time) ==
    layer.start_time <= time /\ time <= layer.end_time

\* BaseLayer.is_visible_at_time
is_visible_at_time(layer, time) ==
    layer.visible /\ layer.start_time <= time /\ time <= layer.end_time

\* TimelineManager.get_layers_at_time
get_layers_at_time(time) ==
    SelectSeq(layers, LAMBDA layer : is_visible_at_time(layer, time))

\* TimelineManager.get_all_layers
get_all_layers == layers

\* TimelineManager.__init__
TimelineInit ==
    /\ layers = <<>>
    /\ current_time = 0
    /\ total_duration = 20
    /\ fps = 30
    /\ selected_layer = NoLayer
    /\ image_transition = [obj |-> 0, type |-> "none", duration |-> 1]

\* TimelineManager.add_layer: self.layers afterwards
AddedTo(ls, layer) == sort_layers_by_z_index(Append(ls, layer))

\* TimelineManager.add_layer
add_layer(layer) ==
    /\ Len(layers) < MaxLayers
    /\ layers' = AddedTo(layers, layer)
    /\ UNCHANGED <<current_time, total_duration, fps, selected_layer, image_transition>>

\* TimelineManager.remove_layer
remove_layer(layer_id) ==
    /\ layers' = SelectSeq(layers, LAMBDA layer : layer.layer_id # layer_id)
    /\ selected_layer' =
          IF selected_layer # NoLayer /\ selected_layer.layer_id = layer_id
          THEN NoLayer ELSE selected_layer
    /\ UNCHANGED <<current_time, total_duration, fps, image_transition>>

\* TimelineManager.set_current_time
set_current_time(time) ==
    /\ current_time' = Max(0, Min(time, total_duration))
    /\ UNCHANGED <<layers, total_duration, fps, selected_layer, image_transition>>

\* TimelineManager.set_total_duration: self.total_duration afterwards
ClampedDuration(duration) == Max(2, duration)

\* TimelineManager.set_total_duration
set_total_duration(duration) ==
    /\ total_duration' = ClampedDuration(duration)
    /\ UNCHANGED <<layers, current_time, fps, selected_layer, image_transition>>

\* TimelineManager.select_layer
select_layer(layer_id) ==
    /\ IF IndexOf(layers, layer_id) # 0
       THEN selected_layer' = Ref(get_layer(layer_id))
       ELSE UNCHANGED selected_layer
    /\ UNCHANGED <<layers, current_time, total_duration, fps, image_transition>>

\* TimelineManager.clear_selection
clear_selection ==
    /\ selected_layer' = NoLayer
    /\ UNCHANGED <<layers, current_time, total_duration, fps, image_transition>>

\* move_layer_up (delta 1) and move_layer_down (delta -1): self.layers afterwards
Moved(ls, layer_id, delta) ==
    LET i == IndexOf(ls, layer_id) IN
    sort_layers_by_z_index([ls EXCEPT ![i].z_index = ls[i].z_index + delta])

\* TimelineManager.move_layer_up
move_layer_up(layer_id) ==
    /\ IF IndexOf(layers, layer_id) # 0
       THEN /\ get_layer(layer_id).z_index < MaxZ
            /\ layers' = Moved(layers, layer_id, 1)
       ELSE UNCHANGED layers
    /\ UNCHANGED <<current_time, total_duration, fps, selected_layer, image_transition>>

\* TimelineManager.move_layer_down
move_layer_down(layer_id) ==
    /\ IF IndexOf(layers, layer_id) # 0
       THEN /\ get_layer(layer_id).z_index > 0 - MaxZ
            /\ layers' = Moved(layers, layer_id, -1)
       ELSE UNCHANGED layers
    /\ UNCHANGED <<current_time, total_duration, fps, selected_layer, image_transition>>

\* the layer the factories build: its id counts the layers, its z_index too
Created(ls, layer) == [layer EXCEPT !.z_index = Len(ls)]

\* TimelineManager.create_text_layer
create_text_layer(text, start_time, end_time) ==
    /\ Len(layers) < MaxLayers
    /\ layers' = AddedTo(layers, Created(layers,
          TextLayer(FreshObj(ObjsOf(layers) \cup SelectedObjs),
                    <<"text", Len(layers) + 1>>, text, start_time, end_time)))
    /\ UNCHANGED <<current_time, total_duration, fps, selected_layer, image_transition>>

\* TimelineManager.create_image_layer
create_image_layer(image_path, start_time, end_time) ==
    /\ Len(layers) < MaxLayers
    /\ layers' = AddedTo(layers, Created(layers,
          ImageLayer(FreshObj(ObjsOf(layers) \cup SelectedObjs),
                     <<"image", Len(layers) + 1>>, image_path, start_time, end_time)))
    /\ UNCHANGED <<current_time, total_duration, fps, selected_layer, image_transition>>

\* TimelineManager.create_box_layer
create_box_layer(start_time, end_time) ==
    /\ Len(layers) < MaxLayers
    /\ layers' = AddedTo(layers, Created(layers,
          BoxLayer(FreshObj(ObjsOf(layers) \cup SelectedObjs),
                   <<"box", Len(layers) + 1>>, start_time, end_time)))
    /\ UNCHANGED <<current_time, total_duration, fps, selected_layer, image_transition>>

\* where the sequence would start if text layers counted too
SequenceStartAfterAll(ls) ==
    LET ends == {ls[i].end_time : i \in DOMAIN ls}
    IN IF ends = {} THEN 0 ELSE Max(0, CHOOSE e \in ends : \A f \in ends : f <= e)

\* add_sequential_images, lines 155-161: where the sequence starts
SequenceStart(ls) ==
    LET ends == {ls[i].end_time : i \in {j \in DOMAIN ls : ls[j].class # "text"}}
    IN IF ends = {} THEN 0 ELSE Max(0, CHOOSE e \in ends : \A f \in ends : f <= e)

\* uuid4: a group token no layer carries yet
FreshGroup(ls) ==
    LET used == {ls[i].group_id : i \in {j \in DOMAIN ls : HasAttr(ls[j], "group_id")}}
    IN CHOOSE n \in 1..(Cardinality(used) + 1) : n \notin used

\* add_sequential_images, lines 175-185: the layers and the created objects
\* after the images from the idx-th on are created
RECURSIVE SequenceCreated(_, _, _, _, _, _, _, _)
SequenceCreated(ls, created, used, image_paths, idx, current_start, duration, group_id) ==
    IF idx >= Len(image_paths) THEN [layers |-> ls, created |-> created]
    ELSE
        LET start_time == current_start + idx * duration
            end_time == start_time + duration
            obj == FreshObj(used)
            made_layer == Created(ls, ImageLayer(obj, <<"image", Len(ls) + 1>>,
                                    image_paths[idx + 1], start_time, end_time))
            layer == set_size(set_position(PutAttr(made_layer, "group_id", group_id),
                                           0, 120), 720, 1050)
        IN SequenceCreated(AddedTo(ls, layer), Append(created, obj), used \cup {obj},
                           image_paths, idx + 1, current_start, duration, group_id)

\* add_sequential_images, lines 187-203: the later images take position, size
\* and display options from the first
InheritFromFirst(ls, created) ==
    IF Len(created) <= 1 THEN ls
    ELSE
        LET base == ls[CHOOSE i \in DOMAIN ls : ls[i].obj = created[1]]
            rest == {created[k] : k \in 2..Len(created)}
        IN [i \in DOMAIN ls |->
              IF ls[i].obj \in rest
              THEN update_scaled_image(
                      [set_size(set_position(ls[i], base.x, base.y),
                                base.width, base.height)
                          EXCEPT !.fit_mode = base.fit_mode])
              ELSE ls[i]]

\* the layers left as they are
ExtendNoLayers(ls, new_total) == ls

\* add_sequential_images, lines 210-213: the text layers end with the video
ExtendTextLayers(ls, new_total) ==
    [i \in DOMAIN ls |->
        IF ls[i].class = "text" THEN [ls[i] EXCEPT !.end_time = new_total] ELSE ls[i]]

\* TimelineManager.add_sequential_images
add_sequential_images(image_paths, duration_per_image) ==
    LET current_start == SequenceStart(layers)
        r == SequenceCreated(layers, <<>>, ObjsOf(layers) \cup SelectedObjs,
                             image_paths, 0, current_start, duration_per_image,
                             FreshGroup(layers))
        ls == InheritFromFirst(r.layers, r.created)
        last == ls[CHOOSE i \in DOMAIN ls : ls[i].obj = r.created[Len(r.created)]]
        new_total == ClampedDuration(Max(total_duration, last.end_time))
    IN
    /\ Len(layers) + Len(image_paths) <= MaxLayers
    /\ current_start + Len(image_paths) * duration_per_image <= MaxTime
    /\ IF r.created = <<>>
       THEN UNCHANGED <<layers, total_duration>>
       ELSE /\ total_duration' = new_total
            /\ layers' = ExtendTextLayers(ls, new_total)
    /\ UNCHANGED <<current_time, fps, selected_layer, image_transition>>

\* an allow-list that lets the source path of the images through
SyncPropsWithPath ==
    {"x", "y", "width", "height", "fit_mode", "rotation", "flip_horizontal",
     "flip_vertical", "image_path"}

\* the sync_props of apply_property_to_group
SyncProps == {"x", "y", "width", "height", "fit_mode", "rotation",
              "flip_horizontal", "flip_vertical"}

\* apply_property_to_group without the allow-list and with nobody left out
GroupAppliedToAll(ls, group_id, property_name, value, include_selected_id) ==
    [i \in DOMAIN ls |->
        IF /\ ls[i].class = "image"
           /\ HasAttr(ls[i], "group_id")
           /\ ls[i].group_id = group_id
           /\ HasAttr(ls[i], property_name)
        THEN update_scaled_image(SetAttr(ls[i], property_name, value))
        ELSE ls[i]]

\* apply_property_to_group, lines 223-237: self.layers afterwards
GroupApplied(ls, group_id, property_name, value, include_selected_id) ==
    IF property_name \notin SyncProps THEN ls
    ELSE [i \in DOMAIN ls |->
            IF /\ ls[i].class = "image"
               /\ HasAttr(ls[i], "group_id")
               /\ ls[i].group_id = group_id
               /\ ~(include_selected_id # NoId
                    /\ ls[i].layer_id = include_selected_id)
               /\ HasAttr(ls[i], property_name)
            THEN IF property_name \in {"width", "height", "fit_mode"}
                 THEN update_scaled_image(SetAttr(ls[i], property_name, value))
                 ELSE SetAttr(ls[i], property_name, value)
            ELSE ls[i]]

\* TimelineManager.apply_property_to_group
apply_property_to_group(group_id, property_name, value, include_selected_id) ==
    /\ layers' = GroupApplied(layers, group_id, property_name, value,
                              include_selected_id)
    /\ UNCHANGED <<current_time, total_duration, fps, selected_layer, image_transition>>

\* TimelineManager.export_timeline_data
export_timeline_data ==
    [total_duration |-> total_duration,
     fps |-> fps,
     current_time |-> current_time,
     image_transition |-> image_transition,
     layers |-> [i \in DOMAIN layers |-> export_data(layers[i])]]

\* dict.get(key, default)
Get(dict, key, default) == IF key \in DOMAIN dict THEN dict[key] ELSE default

\* import_timeline_data, lines 260-264: the constructor call for a layer entry
Constructed(type, obj, layer_id) ==
    CASE type = "text" ->
            TextLayer(obj, layer_id, "Sample Text", DefaultTimes[1], DefaultTimes[2])
      [] type = "image" ->
            ImageLayer(obj, layer_id, "", DefaultTimes[1], DefaultTimes[2])
      [] type = "box" ->
            BoxLayer(obj, layer_id, DefaultTimes[1], DefaultTimes[2])

\* import_timeline_data, lines 257-273: the loop over the layer entries; ok is
\* FALSE when an entry raised, and then layers holds what was appended before
RECURSIVE ImportedLayers(_, _, _)
ImportedLayers(entries, acc, used) ==
    IF entries = <<>> THEN [ok |-> TRUE, layers |-> acc]
    ELSE
        LET layer_data == Head(entries)
            layer_type == Get(layer_data, "type", None)
        IN IF layer_type \notin {"text", "image", "box"}
           THEN ImportedLayers(Tail(entries), acc, used)
           ELSE IF "layer_id" \notin DOMAIN layer_data
           THEN [ok |-> FALSE, layers |-> acc]
           ELSE
               LET obj == FreshObj(used)
                   made_layer == Constructed(layer_type, obj, layer_data.layer_id)
                   layer == [k \in DOMAIN made_layer |->
                               IF HasAttr(made_layer, k) /\ k \in DOMAIN layer_data
                               THEN layer_data[k] ELSE made_layer[k]]
               IN ImportedLayers(Tail(entries), Append(acc, layer), used \cup {obj})

\* TimelineManager.import_timeline_data: the fields it writes and what it returns
Imported(data, used) ==
    LET r == ImportedLayers(Get(data, "layers", <<>>), <<>>, used)
    IN [ok |-> r.ok,
        total_duration |-> Get(data, "total_duration", 20),
        fps |-> Get(data, "fps", 30),
        current_time |-> Get(data, "current_time", 0),
        layers |-> IF r.ok THEN sort_layers_by_z_index(r.layers) ELSE r.layers]

\* import_timeline_data leaving the timeline as it was when an entry fails
import_timeline_data_or_nothing(data) ==
    LET r == Imported(data, SelectedObjs) IN
    /\ Len(r.layers) <= MaxLayers
    /\ IF r.ok
       THEN /\ layers' = r.layers
            /\ total_duration' = r.total_duration
            /\ fps' = r.fps
            /\ current_time' = r.current_time
       ELSE UNCHANGED <<layers, total_duration, fps, current_time>>
    /\ UNCHANGED <<selected_layer, image_transition>>

\* TimelineManager.import_timeline_data
import_timeline_data(data) ==
    LET r == Imported(data, SelectedObjs) IN
    /\ Len(r.layers) <= MaxLayers
    /\ layers' = r.layers
    /\ total_duration' = r.total_duration
    /\ fps' = r.fps
    /\ current_time' = r.current_time
    /\ UNCHANGED <<selected_layer, image_transition>>

\* the dict objects something still refers to: the one in
\* self.image_transition and the one in the export the caller keeps
HeldDicts ==
    {image_transition.obj} \cup
        (IF returned.op = "export_timeline_data"
         THEN {returned.value.image_transition.obj} ELSE {})

\* the identity of a dict made now: one that no dict in use has
NewDict == CHOOSE n \in 0..2 : n \notin HeldDicts /\ \A m \in 0..2 \ HeldDicts : n <= m

\* the keys and values of a dict, its identity left aside
Items(dict) == [k \in DOMAIN dict \ {"obj"} |-> dict[k]]

\* MainWindow._configure_image_transitions, on_ok: a new dict is assigned
set_image_transition(type, duration) ==
    /\ image_transition' = [obj |-> NewDict, type |-> type, duration |-> Max(0, duration)]
    /\ UNCHANGED <<layers, current_time, total_duration, fps, selected_layer>>

\* layer.set_property(name, value) on the i-th layer of the timeline
SetLayerProperty(i, name, value) ==
    /\ layers' = [layers EXCEPT ![i] = set_property(layers[i], name, value)]
    /\ UNCHANGED <<current_time, total_duration, fps, selected_layer, image_transition>>

\* ------------------------------------------------ timeline: the calls made

\* the ids layers carry, and one that no layer carries
LayerIds == {layers[i].layer_id : i \in DOMAIN layers}
NoSuchId == <<"text", 0>>

\* a project file written by hand: it gives the z_index of its layers
SavedProject ==
    [total_duration |-> 12,
     layers |-> <<[type |-> "text", layer_id |-> <<"text", 1>>, z_index |-> 2],
                  [type |-> "box", layer_id |-> <<"box", 2>>, z_index |-> 1]>>]

\* the same file with a layer entry that lacks its layer_id
BrokenProject ==
    [total_duration |-> 12,
     layers |-> SavedProject.layers \o <<[type |-> "image"]>>]

\* a project file without layers
EmptyProject == [layers |-> <<>>]

AddLayerCall ==
    /\ add_layer(BoxLayer(FreshObj(ObjsOf(layers) \cup SelectedObjs), <<"box", 9>>,
                          DefaultTimes[1], DefaultTimes[2]))
    /\ UNCHANGED <<rvars, returned, uvars>>

RemoveLayerCall ==
    /\ \E id \in LayerIds \cup {NoSuchId} : remove_layer(id)
    /\ UNCHANGED <<rvars, returned, uvars>>

SelectLayerCall ==
    /\ \E id \in LayerIds \cup {NoSuchId} : select_layer(id)
    /\ UNCHANGED <<rvars, returned, uvars>>

ClearSelectionCall == clear_selection /\ UNCHANGED <<rvars, returned, uvars>>

MoveLayerUpCall ==
    /\ \E id \in LayerIds \cup {NoSuchId} : move_layer_up(id)
    /\ UNCHANGED <<rvars, returned, uvars>>

MoveLayerDownCall ==
    /\ \E id \in LayerIds \cup {NoSuchId} : move_layer_down(id)
    /\ UNCHANGED <<rvars, returned, uvars>>

CreateTextLayerCall ==
    /\ create_text_layer("New Text", DefaultTimes[1], DefaultTimes[2])
    /\ UNCHANGED <<rvars, returned, uvars>>

CreateImageLayerCall ==
    /\ create_image_layer("p0.png", DefaultTimes[1], DefaultTimes[2])
    /\ UNCHANGED <<rvars, returned, uvars>>

CreateBoxLayerCall ==
    /\ create_box_layer(DefaultTimes[1], DefaultTimes[2])
    /\ UNCHANGED <<rvars, returned, uvars>>

\* the image paths of a sequence of n images
SequencePaths(n) == [k \in 1..n |-> <<"p1.png", "p2.png">>[k]]

\* TimelineManager.add_sequential_images: the list created_layers it returns
SequenceReturned(image_paths, duration_per_image) ==
    LET r == SequenceCreated(layers, <<>>, ObjsOf(layers) \cup SelectedObjs,
                             image_paths, 0, SequenceStart(layers), duration_per_image,
                             FreshGroup(layers))
    IN [k \in DOMAIN r.created |->
          Ref(r.layers[CHOOSE i \in DOMAIN r.layers : r.layers[i].obj = r.created[k]])]

\* MainWindow._add_image_layer: created = add_sequential_images(image_paths, 3.0)
AddSequentialImagesKeptCall ==
    /\ \E n \in 0..2 :
          /\ add_sequential_images(SequencePaths(n), 6)
          /\ returned' = [op |-> "add_sequential_images", arg |-> SequencePaths(n),
                          value |-> SequenceReturned(SequencePaths(n), 6)]
    /\ UNCHANGED <<rvars, uvars>>

\* the callers pass duration_per_image=3.0
AddSequentialImagesCall ==
    /\ \E n \in 0..2 :
          add_sequential_images(SequencePaths(n), 6)
    /\ UNCHANGED <<rvars, returned, uvars>>

ApplyPropertyToGroupCall ==
    /\ \E i \in DOMAIN layers, change \in {<<"width", 500>>, <<"text", "x">>},
          excluded \in {TRUE, FALSE} :
          /\ HasAttr(layers[i], "group_id")
          /\ apply_property_to_group(layers[i].group_id, change[1], change[2],
                                     IF excluded THEN layers[i].layer_id ELSE NoId)
    /\ UNCHANGED <<rvars, returned, uvars>>

SetCurrentTimeCall ==
    /\ \E time \in {-2, 6, 60} : set_current_time(time)
    /\ UNCHANGED <<rvars, returned, uvars>>

SetTotalDurationCall ==
    /\ \E duration \in {0, 30} : set_total_duration(duration)
    /\ UNCHANGED <<rvars, returned, uvars>>

ImageTransitionCall ==
    /\ \E t \in {<<"none", 1>>, <<"crossfade", 2>>} : set_image_transition(t[1], t[2])
    /\ UNCHANGED <<rvars, returned, uvars>>

SetPropertyCall ==
    /\ \E i \in DOMAIN layers, change \in {<<"visible", FALSE>>, <<"fit_mode", "fit">>} :
          SetLayerProperty(i, change[1], change[2])
    /\ UNCHANGED <<rvars, returned, uvars>>

SetZIndexCall ==
    /\ \E i \in DOMAIN layers : SetLayerProperty(i, "z_index", MaxZ)
    /\ UNCHANGED <<rvars, returned, uvars>>

ImportTimelineDataCall ==
    /\ \E data \in {export_timeline_data, EmptyProject, SavedProject, BrokenProject} :
          import_timeline_data(data)
    /\ UNCHANGED <<rvars, returned, uvars>>

\* the scenario's box layer, shown from 2.0 to 8.0 seconds
CreateBoxLayerAtCall ==
    /\ create_box_layer(4, 16)
    /\ UNCHANGED <<rvars, returned, uvars>>

\* the moments the visible layers are asked for: 2.0, 3.0, 5.0, 6.0, 8.0 and
\* 9.0 seconds
VisibleTimes == {4, 6, 10, 12, 16, 18}

\* PreviewCanvas: self.timeline_manager.get_layers_at_time(time)
GetLayersAtTimeCall ==
    /\ \E time \in VisibleTimes :
          returned' = [op |-> "get_layers_at_time", arg |-> time,
                       value |-> [k \in DOMAIN get_layers_at_time(time) |->
                                     Ref(get_layers_at_time(time)[k])]]
    /\ UNCHANGED <<rvars, tvars, uvars>>

\* hiding a layer: set_property("visible", False)
HideLayerCall ==
    /\ \E i \in DOMAIN layers : SetLayerProperty(i, "visible", FALSE)
    /\ UNCHANGED <<rvars, returned, uvars>>

\* layers of the scenario, hidden or not, and the query of the visible ones
VisibleNext ==
    \/ CreateTextLayerCall
    \/ CreateBoxLayerAtCall
    \/ HideLayerCall
    \/ GetLayersAtTimeCall

\* layer.set_size(300, 150) on a layer of the timeline
SetSizeCall ==
    /\ \E i \in DOMAIN layers :
          layers' = [layers EXCEPT ![i] = set_size(layers[i], 300, 150)]
    /\ UNCHANGED <<current_time, total_duration, fps, selected_layer, image_transition>>
    /\ UNCHANGED <<rvars, returned, uvars>>

\* image layers, alone and in groups, and the changes to their properties
ImagesNext ==
    \/ CreateTextLayerCall
    \/ CreateImageLayerCall
    \/ AddSequentialImagesCall
    \/ SetPropertyCall
    \/ ApplyPropertyToGroupCall
    \/ SetSizeCall

\* groups of images beside other layers, and the changes made to a group
GroupNext ==
    \/ CreateTextLayerCall
    \/ AddSequentialImagesCall
    \/ SetPropertyCall
    \/ ApplyPropertyToGroupCall

\* MainWindow._export_video: timeline_data = export_timeline_data(), kept by
\* the caller and handed to the renderer
ExportTimelineDataCall ==
    /\ returned' = [op |-> "export_timeline_data", arg |-> 0,
                    value |-> export_timeline_data]
    /\ UNCHANGED <<rvars, tvars, uvars>>

\* editing goes on after the timeline was exported
ExportNext ==
    \/ CreateTextLayerCall
    \/ SetPropertyCall
    \/ RemoveLayerCall
    \/ ImageTransitionCall
    \/ ExportTimelineDataCall

\* ------------------------------------------------ PreviewCanvas

\* the transition types _render_layers and the export treat as an effect
EffectTypes == {"crossfade", "fadeblack", "wipeleft", "wiperight", "zoomin",
                "zoomout", "rotate", "flip"}

\* sorted(layers, key=start_time) is stable: a layer is put behind the layers
\* before it whose start_time is not larger
RECURSIVE InsertByStart(_, _)
InsertByStart(sorted, layer) ==
    IF sorted = <<>> THEN <<layer>>
    ELSE IF Head(sorted).start_time <= layer.start_time
         THEN <<Head(sorted)>> \o InsertByStart(Tail(sorted), layer)
         ELSE <<layer>> \o sorted

RECURSIVE SortedByStart(_)
SortedByStart(ls) ==
    IF ls = <<>> THEN <<>>
    ELSE InsertByStart(SortedByStart(SubSeq(ls, 1, Len(ls) - 1)), ls[Len(ls)])

\* _render_layers, lines 114-162: did_crossfade. The current image is the
\* first layer with an image_path, in the order of start_time, whose times
\* hold the canvas time; the next image is the first one after it.
DualDraw(ls, transition, time) ==
    LET all_layers == SortedByStart(ls)
        holding == {i \in DOMAIN all_layers :
                       /\ HasAttr(all_layers[i], "image_path")
                       /\ all_layers[i].start_time <= time
                       /\ time <= all_layers[i].end_time}
    IN  /\ transition.type \in EffectTypes
        /\ transition.duration > 0
        /\ holding # {}
        /\ LET i == CHOOSE k \in holding : \A j \in holding : k <= j
               current_img == all_layers[i]
           IN  /\ current_img.end_time - transition.duration <= time
               /\ time <= current_img.end_time
               /\ \E j \in (i + 1)..Len(all_layers) :
                     HasAttr(all_layers[j], "image_path")

\* the part of the layer's time the canvas time lies in, for a transition of
\* the duration: the chain of comparisons of _apply_image_transition_effects
Phase(layer, trans_dur, time) ==
    CASE time < layer.start_time -> "before"
      [] time >= layer.start_time /\ time <= layer.start_time + trans_dur -> "in"
      [] time > layer.start_time + trans_dur
             /\ time <= layer.end_time - trans_dur -> "full"
      [] time > layer.start_time + trans_dur /\ time > layer.end_time - trans_dur
             /\ time <= layer.end_time -> "out"
      [] OTHER -> "after"

\* progress of the effect, in percent
Progress(layer, trans_dur, time) ==
    IF Phase(layer, trans_dur, time) = "in"
    THEN ((time - layer.start_time) * 100) \div trans_dur
    ELSE ((layer.end_time - time) * 100) \div trans_dur

\* getattr(layer, name, default)
GetAttr(layer, name, default) == IF HasAttr(layer, name) THEN layer[name] ELSE default

\* PreviewCanvas._apply_image_transition_effects: the layer afterwards.
\* Fractions of a pixel and of a degree are dropped.
apply_image_transition_effects(layer, transition, time) ==
    LET trans_type == transition.type
        trans_dur == transition.duration
        phase == Phase(layer, trans_dur, time)
        moving == phase \in {"in", "out"}
        progress == Progress(layer, trans_dur, time)
        shown == SetAttr(layer, "opacity", IF phase \in {"before", "after"} THEN 0 ELSE 100)
        original_x == GetAttr(layer, "_original_x", layer.x)
        original_width == GetAttr(layer, "_original_width", layer.width)
        original_height == GetAttr(layer, "_original_height", layer.height)
        shift == ((100 - progress) * layer.width) \div 100
    IN  CASE trans_type \in {"crossfade", "fadeblack"} /\ trans_dur > 0 ->
                SetAttr(layer, "opacity",
                        IF moving THEN Min(100, Max(0, progress))
                        ELSE IF phase = "full" THEN 100 ELSE 0)
          [] trans_type \in {"wipeleft", "wiperight"} /\ trans_dur > 0 ->
                LET toward == IF trans_type = "wipeleft" THEN 1 ELSE -1 IN
                SetAttr(shown, "x",
                        CASE phase = "before" -> toward * layer.width
                          [] phase = "in" -> original_x + toward * shift
                          [] phase = "full" -> original_x
                          [] phase = "out" -> original_x - toward * shift
                          [] OTHER -> (0 - toward) * layer.width)
          [] trans_type \in {"zoomin", "zoomout"} /\ trans_dur > 0 ->
                LET grown(original) ==
                        IF trans_type = "zoomin"
                        THEN 1 + ((original - 1) * progress) \div 100
                        ELSE original - ((original - 1) * progress) \div 100
                IN  IF moving
                    THEN SetAttr(SetAttr(shown, "width", grown(original_width)),
                                 "height", grown(original_height))
                    ELSE IF phase = "full"
                    THEN SetAttr(SetAttr(shown, "width", original_width),
                                 "height", original_height)
                    ELSE SetAttr(SetAttr(shown, "width", 1), "height", 1)
          [] trans_type = "rotate" /\ trans_dur > 0 ->
                SetAttr(shown, "rotation",
                        IF moving THEN (360 * progress) \div 100 ELSE 0)
          [] trans_type = "flip" /\ trans_dur > 0 ->
                SetAttr(shown, "flip_horizontal",
                        moving /\ ((progress \div 10) % 2) = 1)
          [] OTHER ->
                SetAttr(layer, "opacity", IF layer.visible THEN 100 ELSE 0)

\* PreviewCanvas._render_layer, lines 176-189: the layer afterwards. What
\* render_preview draws leaves the attributes alone.
render_layer(layer, transition, time) ==
    IF HasAttr(layer, "group_id") /\ HasAttr(layer, "fit_mode")
    THEN LET a == IF HasAttr(layer, "_original_x") THEN layer
                  ELSE PutAttr(layer, "_original_x", layer.x)
             b == IF HasAttr(a, "_original_y") THEN a
                  ELSE PutAttr(a, "_original_y", layer.y)
             c == IF HasAttr(b, "_original_width") THEN b
                  ELSE PutAttr(b, "_original_width", layer.width)
             d == IF HasAttr(c, "_original_height") THEN c
                  ELSE PutAttr(c, "_original_height", layer.height)
         IN  apply_image_transition_effects(d, transition, time)
    ELSE layer

\* the two ways through _render_layers
Path(ls, transition, time) ==
    IF DualDraw(ls, transition, time) THEN "dual" ELSE "loop"

\* PreviewCanvas._render_layers at the canvas time: the layers afterwards
render_layers(ls, transition, time) ==
    IF DualDraw(ls, transition, time) THEN ls
    ELSE [i \in DOMAIN ls |->
             IF is_visible_at_time(ls[i], time)
             THEN render_layer(ls[i], transition, time)
             ELSE ls[i]]

\* the times the preview is asked to show
PreviewTimes == {1, 5, 12}

\* PreviewCanvas.set_current_time(time): the time is kept and the canvas
\* refreshed; the way taken through _render_layers is kept for the checks
PreviewSetCurrentTimeCall ==
    /\ \E time \in PreviewTimes :
          /\ canvas_time' = time
          /\ layers' = render_layers(layers, image_transition, time)
          /\ returned' = [op |-> "refresh", arg |-> time,
                          value |-> Path(layers, image_transition, time)]
    /\ UNCHANGED <<rvars, current_time, total_duration, fps, selected_layer,
                   image_transition, canvas_selected>>

\* the Effects dialog closed with OK, for some of the types it offers
ConfigureTransitionCall ==
    /\ \E type \in {"none", "crossfade", "fadeblack", "zoomin"} :
          set_image_transition(type, 2)
    /\ UNCHANGED <<rvars, returned, uvars>>

\* a sequence of images and a text layer shown in the preview
PreviewNext ==
    \/ CreateTextLayerCall
    \/ AddSequentialImagesCall
    \/ ConfigureTransitionCall
    \/ PreviewSetCurrentTimeCall

\* PreviewCanvas.refresh: self.layers after _render_layers at the canvas time
Refreshed(ls) == render_layers(ls, image_transition, canvas_time)

\* timeline_manager.select_layer(layer_id): self.selected_layer afterwards
Selected(layer_id) ==
    IF IndexOf(layers, layer_id) # 0 THEN Ref(get_layer(layer_id)) ELSE selected_layer

\* timeline_manager.remove_layer(layer_id): self.layers afterwards
Removed(layer_id) == SelectSeq(layers, LAMBDA layer : layer.layer_id # layer_id)

\* PreviewCanvas._select_layer(layer), a click on the layer: the canvas and
\* the timeline take the selection (the timeline by layer_id, once more in
\* MainWindow._on_layer_select), then the canvas is refreshed
CanvasSelectLayerCall ==
    /\ \E i \in DOMAIN layers :
          /\ canvas_selected' = Ref(layers[i])
          /\ selected_layer' = Selected(layers[i].layer_id)
    /\ layers' = Refreshed(layers)
    /\ UNCHANGED <<rvars, returned, current_time, total_duration, fps,
                   image_transition, canvas_time>>

\* PreviewCanvas._clear_selection, a click beside the layers
CanvasClearSelectionCall ==
    /\ canvas_selected' = NoLayer
    /\ selected_layer' = NoLayer
    /\ layers' = Refreshed(layers)
    /\ UNCHANGED <<rvars, returned, current_time, total_duration, fps,
                   image_transition, canvas_time>>

\* PreviewCanvas._delete_selected_layer, the Delete key on the canvas
CanvasDeleteSelectedCall ==
    /\ IF canvas_selected # NoLayer
       THEN /\ layers' = Refreshed(Removed(canvas_selected.layer_id))
            /\ canvas_selected' = NoLayer
            /\ selected_layer' = NoLayer
       ELSE UNCHANGED <<layers, canvas_selected, selected_layer>>
    /\ UNCHANGED <<rvars, returned, current_time, total_duration, fps,
                   image_transition, canvas_time>>

\* LayerPanel._on_layer_select(layer), a click on the row of the layer, which
\* calls MainWindow._on_layer_select: timeline_manager.select_layer
PanelSelectLayerCall ==
    /\ \E i \in DOMAIN layers : select_layer(layers[i].layer_id)
    /\ UNCHANGED <<rvars, returned, uvars>>

\* LayerPanel._on_layer_delete(layer): timeline_manager.remove_layer; the
\* panel has no preview_canvas attribute, so no canvas is refreshed
PanelDeleteLayerCall ==
    /\ \E i \in DOMAIN layers : remove_layer(layers[i].layer_id)
    /\ UNCHANGED <<rvars, returned, uvars>>

\* MainWindow._delete_selected, the Delete key of the window: the layer the
\* timeline has selected is removed and the canvas refreshed
MainDeleteSelectedCall ==
    /\ IF selected_layer # NoLayer
       THEN /\ layers' = Refreshed(Removed(selected_layer.layer_id))
            /\ selected_layer' = NoLayer
       ELSE UNCHANGED <<layers, selected_layer>>
    /\ UNCHANGED <<rvars, returned, current_time, total_duration, fps,
                   image_transition, uvars>>

\* layers made, selected and deleted through the canvas, the panel and the
\* window
WindowNext ==
    \/ CreateTextLayerCall
    \/ CreateBoxLayerCall
    \/ CanvasSelectLayerCall
    \/ CanvasClearSelectionCall
    \/ CanvasDeleteSelectedCall
    \/ PanelSelectLayerCall
    \/ PanelDeleteLayerCall
    \/ MainDeleteSelectedCall

\* a project file whose first known entry lacks its layer_id, after an entry
\* of a type the import skips
UnreadableProject ==
    [total_duration |-> 6, fps |-> 24, current_time |-> 4,
     layers |-> <<[type |-> "video"], [type |-> "box", x |-> 3]>>
                    \o SavedProject.layers]

\* MainWindow._open_project: ok = import_timeline_data(data), the result kept
ImportTimelineDataKeptCall ==
    /\ \E data \in {SavedProject, BrokenProject, UnreadableProject} :
          /\ import_timeline_data(data)
          /\ returned' = [op |-> "import_timeline_data", arg |-> data,
                          value |-> Imported(data, SelectedObjs).ok]
    /\ UNCHANGED <<rvars, uvars>>

\* a timeline that is built and then replaced by a project file
OpenNext ==
    \/ CreateTextLayerCall
    \/ CreateBoxLayerCall
    \/ SelectLayerCall
    \/ SetCurrentTimeCall
    \/ ImportTimelineDataKeptCall

\* the calls that assign the current time and the total duration
ClockNext ==
    \/ SetCurrentTimeCall
    \/ SetTotalDurationCall
    \/ AddSequentialImagesCall
    \/ ImportTimelineDataCall

\* a text layer shown from 11.0 to 12.0 seconds, after the default end of the
\* video
CreateTextLayerAtCall ==
    /\ create_text_layer("New Text", 22, 24)
    /\ UNCHANGED <<rvars, returned, uvars>>

\* text layers at their default and at a late time, boxes and sequences
TimingNext ==
    \/ CreateTextLayerCall
    \/ CreateTextLayerAtCall
    \/ CreateBoxLayerCall
    \/ CreateBoxLayerAtCall
    \/ AddSequentialImagesCall
    \/ SetTotalDurationCall

\* layers, the duration of the timeline and sequences of images
SequenceNext ==
    \/ CreateTextLayerCall
    \/ CreateBoxLayerCall
    \/ CreateBoxLayerAtCall
    \/ AddSequentialImagesKeptCall
    \/ SetTotalDurationCall

\* the factories and remove_layer alone
FactoryNext ==
    \/ CreateTextLayerCall
    \/ CreateImageLayerCall
    \/ CreateBoxLayerCall
    \/ AddSequentialImagesCall
    \/ RemoveLayerCall

\* the calls that add or remove layers or move the selection
SelectionNext ==
    \/ AddLayerCall
    \/ CreateTextLayerCall
    \/ CreateImageLayerCall
    \/ CreateBoxLayerCall
    \/ AddSequentialImagesCall
    \/ SelectLayerCall
    \/ ClearSelectionCall
    \/ RemoveLayerCall
    \/ ImportTimelineDataCall

\* the calls that add, remove or reorder layers, and the z_index property
OrderNext ==
    \/ AddLayerCall
    \/ CreateTextLayerCall
    \/ CreateImageLayerCall
    \/ CreateBoxLayerCall
    \/ AddSequentialImagesCall
    \/ MoveLayerUpCall
    \/ MoveLayerDownCall
    \/ RemoveLayerCall
    \/ ImportTimelineDataCall
    \/ SetZIndexCall

\* layers created, removed and moved in the z-order
StackNext ==
    \/ CreateTextLayerCall
    \/ CreateImageLayerCall
    \/ CreateBoxLayerCall
    \/ RemoveLayerCall
    \/ MoveLayerUpCall
    \/ MoveLayerDownCall

\* the public mutation methods a timeline is built with
BuildNext ==
    \/ CreateTextLayerCall
    \/ CreateImageLayerCall
    \/ CreateBoxLayerCall
    \/ AddSequentialImagesCall
    \/ MoveLayerUpCall
    \/ MoveLayerDownCall
    \/ SetPropertyCall
    \/ ApplyPropertyToGroupCall
    \/ SetTotalDurationCall
    \/ ImageTransitionCall

\* ------------------------------------------------ timeline: properties

\* C7: whatever create_text_layer, create_image_layer, create_box_layer,
\* add_sequential_images and remove_layer calls were made, the layers of the
\* timeline carry pairwise distinct layer_id values.
C7_LayerIdsDistinct ==
    \A i, j \in DOMAIN layers : i # j => layers[i].layer_id # layers[j].layer_id

\* C8: whatever add_layer, create_*_layer, add_sequential_images, select_layer,
\* clear_selection, remove_layer and import_timeline_data calls were made, the
\* selected layer is None or one of the objects in self.layers.
C8_SelectionInLayers ==
    selected_layer = NoLayer \/ selected_layer.obj \in ObjsOf(layers)

\* the attributes of a layer object, its identity and the images it has
\* loaded and cached left aside
Attributes(layer) ==
    [k \in DOMAIN layer \ {"obj", "original_image", "scaled_image"} |-> layer[k]]

\* a fresh TimelineManager after import_timeline_data(data): the fields that
\* make up the timeline
FreshImport(data) ==
    LET r == Imported(data, {}) IN
    [layers |-> [i \in DOMAIN r.layers |-> Attributes(r.layers[i])],
     total_duration |-> r.total_duration,
     fps |-> r.fps,
     current_time |-> r.current_time,
     image_transition |-> [type |-> "none", duration |-> 1]]

\* C9: importing export_timeline_data() into a fresh timeline gives a timeline
\* equal to the exporting one: as many layers, of the same classes in the same
\* order, with equal values for every attribute (z_index and group_id
\* included), and equal total_duration, fps, current_time and image_transition.
C9_RoundTripEquivalent ==
    FreshImport(export_timeline_data) =
        [layers |-> [i \in DOMAIN layers |-> Attributes(layers[i])],
         total_duration |-> total_duration,
         fps |-> fps,
         current_time |-> current_time,
         image_transition |-> Items(image_transition)]

\* ascending by z_index
SortedByZ(ls) ==
    \A i, j \in DOMAIN ls : i < j => ls[i].z_index <= ls[j].z_index

\* the moments the order queries are made at
QueryTimes == {0, 6, 12}

\* a call that changes the order and keeps the layer objects it does not remove
ReorderingCall ==
    \/ AddLayerCall
    \/ CreateTextLayerCall
    \/ CreateImageLayerCall
    \/ CreateBoxLayerCall
    \/ AddSequentialImagesCall
    \/ MoveLayerUpCall
    \/ MoveLayerDownCall
    \/ RemoveLayerCall

\* the layers that were there before and have equal z_index afterwards are in
\* the order they were in before
TiesKeepOrder ==
    \A i, j \in DOMAIN layers' :
        \A m, n \in DOMAIN layers :
            /\ i < j
            /\ layers'[i].z_index = layers'[j].z_index
            /\ layers[m].obj = layers'[i].obj
            /\ layers[n].obj = layers'[j].obj
            => m < n

\* C10: after add_layer, create_*_layer, add_sequential_images, move_layer_up,
\* move_layer_down, remove_layer and import_timeline_data, get_all_layers and
\* get_layers_at_time return the layers ascending by z_index, and layers of
\* equal z_index are in the order they were in before the call.
C10_SortedAfterReordering ==
    [][/\ (ReorderingCall \/ ImportTimelineDataCall) =>
            /\ SortedByZ(get_all_layers')
            /\ \A time \in QueryTimes : SortedByZ(get_layers_at_time(time)')
       /\ ReorderingCall => TiesKeepOrder]_vars

\* the objects of the layers that are shown at the time: visible, and the time
\* within start_time and end_time, both included
ShownAt(time) ==
    {layers[i].obj : i \in {j \in DOMAIN layers :
        /\ layers[j].visible
        /\ layers[j].start_time <= time
        /\ time <= layers[j].end_time}}

\* C11: is_visible_at_time(L, t) is true exactly when L.visible and
\* L.start_time <= t <= L.end_time, and get_layers_at_time(t) returns exactly
\* the layers for which that holds, each once and in the order of the
\* timeline, and changes nothing.
C11_VisibleLayersReturned ==
    [][GetLayersAtTimeCall =>
          /\ \A i \in DOMAIN layers : \A t \in VisibleTimes :
                is_visible_at_time(layers[i], t) <=> layers[i].obj \in ShownAt(t)
          /\ {returned'.value[k].obj : k \in DOMAIN returned'.value}
                = ShownAt(returned'.arg)
          /\ Len(returned'.value) = Cardinality(ShownAt(returned'.arg))
          /\ \A j, k \in DOMAIN returned'.value : \A m, n \in DOMAIN layers :
                (/\ j < k
                 /\ layers[m].obj = returned'.value[j].obj
                 /\ layers[n].obj = returned'.value[k].obj) => m < n
          /\ UNCHANGED tvars]_vars

\* C11 witness: with the text layer shown from 0 to 5 seconds and the box
\* layer shown from 2 to 8 seconds, the query at 6 seconds returned the box
\* layer alone.
C11_Witness ==
    /\ Len(layers) = 2
    /\ \E i, j \in DOMAIN layers :
          /\ layers[i].class = "text" /\ layers[i].visible
          /\ layers[i].start_time = 0 /\ layers[i].end_time = 10
          /\ layers[j].class = "box" /\ layers[j].visible
          /\ layers[j].start_time = 4 /\ layers[j].end_time = 16
          /\ returned.op = "get_layers_at_time"
          /\ returned.arg = 12
          /\ returned.value = <<Ref(layers[j])>>

\* the layers a step has added, in the order of the timeline
NewLayers == SelectSeq(layers', LAMBDA layer : layer.obj \notin ObjsOf(layers))

\* the largest end_time of the layers that are not text layers, 0 without any
LatestEnd ==
    LET others == {i \in DOMAIN layers : layers[i].class # "text"}
    IN IF others = {} THEN 0
       ELSE CHOOSE e \in {layers[i].end_time : i \in others} :
               \A i \in others : layers[i].end_time <= e

TextLayersExtended ==
    \A i \in DOMAIN layers :
        layers[i].class = "text" =>
            \E j \in DOMAIN layers' :
                /\ layers'[j].obj = layers[i].obj
                /\ layers'[j].end_time = total_duration'
                /\ layers'[j].start_time = layers[i].start_time

\* C13, as claimed: after any add_sequential_images call, the empty list of
\* paths included, every text layer that existed before the call ends at
\* total_duration and starts when it did.
C13_TextLayersExtended ==
    [][AddSequentialImagesKeptCall => TextLayersExtended]_vars

\* C13, amended: after an add_sequential_images call that creates at least
\* one layer, every text layer that existed before the call ends at
\* total_duration and starts when it did; a call with an empty list of paths
\* changes no field of the timeline.
C13_TextLayersExtendedAfterCreation ==
    [][AddSequentialImagesKeptCall =>
          IF Len(returned'.arg) >= 1 THEN TextLayersExtended ELSE UNCHANGED tvars]_vars

\* C13 witness: a sequence was added beside a text layer, which now ends with
\* the video at total_duration and no longer after 5 seconds.
C13_Witness ==
    /\ returned.op = "add_sequential_images"
    /\ Len(returned.value) >= 1
    /\ \E i \in DOMAIN layers :
          /\ layers[i].class = "text"
          /\ layers[i].end_time = total_duration
          /\ layers[i].end_time # DefaultTimes[2]

\* C17: for every image layer with a loaded original image, the cached scaled
\* image is the one computed from the layer's current width, height and
\* fit_mode.
C17_ScaledImageCurrent ==
    \A i \in DOMAIN layers :
        (layers[i].class = "image" /\ layers[i].original_image # NoImage) =>
            layers[i].scaled_image = update_scaled_image(layers[i]).scaled_image

\* the allow-list of apply_property_to_group, as claimed
AllowList == {"x", "y", "width", "height", "fit_mode", "rotation",
              "flip_horizontal", "flip_vertical"}

\* property changes asked of a group: allowed ones and others
AllowedChanges == {<<"width", 500>>, <<"x", 40>>, <<"fit_mode", "fit">>}
OtherChanges == {<<"text", "x">>, <<"image_path", "q.png">>, <<"start_time", 2>>,
                 <<"opacity", 50>>}

\* the group ids of the timeline and one no layer carries
GroupIds ==
    {layers[i].group_id : i \in {j \in DOMAIN layers : HasAttr(layers[j], "group_id")}}
        \cup {0}

\* layer i is an image layer of the group
InGroup(i, gid) ==
    /\ layers[i].class = "image"
    /\ HasAttr(layers[i], "group_id")
    /\ layers[i].group_id = gid

\* C14: apply_property_to_group(gid, p, v, excluded_id) with p in the
\* allow-list sets p to v on every image layer whose group_id is gid, except
\* on the layer whose id is excluded_id, where p stays as it was.
C14_GroupPropertyApplied ==
    \A gid \in GroupIds, change \in AllowedChanges, ex \in LayerIds \cup {NoId} :
        LET after == GroupApplied(layers, gid, change[1], change[2], ex) IN
        /\ change[1] \in AllowList
        /\ DOMAIN after = DOMAIN layers
        /\ \A i \in DOMAIN layers :
              InGroup(i, gid) =>
                  after[i][change[1]] =
                      IF layers[i].layer_id = ex THEN layers[i][change[1]] ELSE change[2]

\* C14 witness: of the two images of a group, one was given the width 500 and
\* the other, left out of the call, kept its width.
C14_Witness ==
    \E i, j \in DOMAIN layers :
        /\ InGroup(i, layers[i].group_id)
        /\ InGroup(j, layers[i].group_id)
        /\ layers[i].width = 500
        /\ layers[j].width = 720

\* what apply_property_to_group leaves alone: everything for a name outside
\* the allow-list; for a name in it, the layers outside the group and, on the
\* members, the attributes other than the named one and those in derived
FrameKept(derived) ==
    \A gid \in GroupIds, ex \in LayerIds \cup {NoId} :
        /\ \A change \in OtherChanges :
              /\ change[1] \notin AllowList
              /\ GroupApplied(layers, gid, change[1], change[2], ex) = layers
        /\ \A change \in AllowedChanges :
              LET after == GroupApplied(layers, gid, change[1], change[2], ex) IN
              /\ DOMAIN after = DOMAIN layers
              /\ \A i \in DOMAIN layers :
                    IF InGroup(i, gid)
                    THEN /\ DOMAIN after[i] = DOMAIN layers[i]
                         /\ \A k \in DOMAIN layers[i] \ ({change[1]} \cup derived) :
                               after[i][k] = layers[i][k]
                    ELSE after[i] = layers[i]

\* C15, as claimed: apply_property_to_group changes no attribute of any layer
\* for a name outside the allow-list; for a name in it, the layers that are
\* not image layers of the group are unchanged, and so is every attribute
\* other than the named one on the members.
C15_GroupFrame == FrameKept({})

\* C15, amended: as claimed, except that on the members the cached scaled
\* image may change too, and after the call it is the one computed from the
\* member's width, height and fit_mode when the name is one of those three.
C15_GroupFrameButScaledImage ==
    /\ FrameKept({"scaled_image"})
    /\ \A gid \in GroupIds, ex \in LayerIds \cup {NoId}, change \in AllowedChanges :
          LET after == GroupApplied(layers, gid, change[1], change[2], ex) IN
          \A i \in DOMAIN layers :
              InGroup(i, gid) =>
                  after[i].scaled_image =
                      IF change[1] \in {"width", "height", "fit_mode"}
                         /\ layers[i].layer_id # ex
                      THEN update_scaled_image(after[i]).scaled_image
                      ELSE layers[i].scaled_image

\* C15 witness: the image of a group was given the width 500 and its scaled
\* image was recomputed, beside a text layer that kept its width.
C15_Witness ==
    \E i, j \in DOMAIN layers :
        /\ InGroup(i, layers[i].group_id)
        /\ layers[i].width = 500
        /\ layers[i].scaled_image = update_scaled_image(layers[i]).scaled_image
        /\ layers[j].class = "text"
        /\ layers[j].width = 200

\* C16: in every state reached through set_current_time, set_total_duration,
\* add_sequential_images and import_timeline_data, total_duration is at least
\* 1.0 and current_time lies between 0 and total_duration.
C16_TimeWithinDuration ==
    /\ total_duration >= 2
    /\ 0 <= current_time
    /\ current_time <= total_duration

\* VideoRenderer._sec_to_ass: hours, minutes, seconds and hundredths of a
\* time given in half seconds
sec_to_ass(seconds) ==
    [h |-> seconds \div 7200,
     m |-> (seconds % 7200) \div 120,
     s |-> (seconds % 120) \div 2,
     ms |-> ((seconds % 2) * 50)]

\* the moment an ASS time code names, in hundredths of a second
AssMoment(code) == ((code.h * 60 + code.m) * 60 + code.s) * 100 + code.ms

\* _write_layer_to_ass: the Dialogue events written for an exported layer,
\* each with its Start and End; none for an image
Dialogues(layer_data) ==
    LET start_ass == sec_to_ass(Get(layer_data, "start_time", 0))
        end_ass == sec_to_ass(Get(layer_data, "end_time", 10))
    IN  IF Get(layer_data, "type", "") \in {"text", "box"}
        THEN {[Start |-> start_ass, End |-> end_ass]}
        ELSE {}

\* _build_ffmpeg_command, lines 271-283 and 307-319: the enable windows of
\* the overlay stages made for an exported layer
Overlays(layer_data) ==
    IF /\ Get(layer_data, "type", "") = "image"
       /\ Get(layer_data, "image_path", "") # ""
       /\ FileExists(layer_data.image_path)
    THEN {[from |-> Get(layer_data, "start_time", 0),
           to |-> Get(layer_data, "end_time", 10)]}
    ELSE {}

\* the exported video shows the layer at the time (in half seconds)
ExportShows(layer_data, time) ==
    \/ \E d \in Dialogues(layer_data) :
          AssMoment(d.Start) <= time * 50 /\ time * 50 <= AssMoment(d.End)
    \/ \E o \in Overlays(layer_data) : o.from <= time /\ time <= o.to

\* C19: with no image transition configured, at every time the layers the
\* export shows (a Dialogue event or an overlay window covering the time) are
\* the layers for which is_visible_at_time holds; a layer with visible = false
\* is shown by neither.
C19_ExportShowsVisibleLayers ==
    image_transition.type = "none" =>
        \A i \in DOMAIN layers, time \in 0..MaxTime :
            ExportShows(export_timeline_data.layers[i], time)
                <=> is_visible_at_time(layers[i], time)

\* C20: when ffmpeg is not reachable the render fails fast: the check is made
\* before _build_ffmpeg_command runs, so the callback never receives the
\* status that follows the building of the command, and the last status it
\* receives is not the one delivered when the encoder exits non-zero.
C20_ToolNotFoundFailsFast ==
    \A i \in DOMAIN threads :
        (threads[i].encoder = "notfound" /\ threads[i].has_cb) =>
            /\ \A k \in DOMAIN threads[i].log : Delivered(i)[k] # StatusStart
            /\ Delivered(i)[Len(threads[i].log)] # StatusFailed

\* the thread that runs the Tk main loop, and render thread i
UiThread == <<"ui", 0>>
RenderThread(i) == <<"render", i>>

\* MainWindow._on_render_progress run by a thread: the widgets it changes, in
\* order, each with the thread that makes the change. rendering is what it
\* reads from video_renderer.is_rendering.
on_render_progress(progress, status, rendering, thread) ==
    <<[widget |-> "progress_bar", by |-> thread],
      [widget |-> "status_label", by |-> thread]>>
    \o (IF progress >= 100 \/ status \in Terminal \/ ~rendering
        THEN <<[widget |-> "progress_window", by |-> thread]>>
             \o (IF progress >= 100 \/ status \in Terminal
                 THEN <<[widget |-> "messagebox", by |-> thread]>>
                 ELSE <<>>)
        ELSE <<>>)

\* _update_progress, lines 514-515: the callback is called by the thread that
\* runs _update_progress. The widget changes made in this step through the
\* callback of render thread i: none unless the thread called it.
CallbackWrites(i) ==
    IF Len(threads'[i].log) > Len(threads[i].log)
    THEN LET call == threads'[i].log[Len(threads'[i].log)]
         IN  on_render_progress(call[1], call[2], is_rendering, RenderThread(i))
    ELSE <<>>

\* C21: every widget change caused by a render progress callback is made by
\* the UI thread; the render thread changes no widget itself.
C21_WidgetsChangedOnUiThread ==
    [][\A i \in DOMAIN threads :
          \A k \in DOMAIN CallbackWrites(i) : CallbackWrites(i)[k].by = UiThread]_vars

\* the types import_timeline_data makes a layer for
KnownTypes == {"text", "image", "box"}

\* the first entry that cannot be made a layer: of a known type and without
\* layer_id; 0 when every entry can
FirstFailing(entries) ==
    LET failing == {k \in DOMAIN entries :
                       /\ Get(entries[k], "type", None) \in KnownTypes
                       /\ "layer_id" \notin DOMAIN entries[k]}
    IN  IF failing = {} THEN 0
        ELSE CHOOSE k \in failing : \A j \in failing : k <= j

\* the entries of known type among the first n, in order
RECURSIVE KnownBefore(_, _)
KnownBefore(entries, n) ==
    IF n = 0 THEN <<>>
    ELSE IF Get(entries[n], "type", None) \in KnownTypes
         THEN Append(KnownBefore(entries, n - 1), entries[n])
         ELSE KnownBefore(entries, n - 1)

\* C22: when a layer entry of the dict cannot be reconstructed,
\* import_timeline_data returns False, the layers of the timeline are exactly
\* those made from the entries before the failing one, in their order, and
\* total_duration, fps and current_time hold the imported values.
C22_FailedImportLeavesPrefix ==
    [][(ImportTimelineDataKeptCall
          /\ FirstFailing(returned'.arg.layers) # 0) =>
         LET data == returned'.arg
             kept == KnownBefore(data.layers, FirstFailing(data.layers) - 1)
         IN  /\ returned'.value = FALSE
             /\ Len(layers') = Len(kept)
             /\ \A k \in DOMAIN kept :
                   /\ layers'[k].class = kept[k].type
                   /\ layers'[k].layer_id = kept[k].layer_id
                   /\ \A a \in DOMAIN kept[k] \ {"type"} :
                         HasAttr(layers'[k], a) => layers'[k][a] = kept[k][a]
             /\ total_duration' = Get(data, "total_duration", 20)
             /\ fps' = Get(data, "fps", 30)
             /\ current_time' = Get(data, "current_time", 0)]_vars

\* C22 witness: the import of a file whose third entry fails returned False
\* and left the two layers made before it, in the order of the file.
C22_Witness ==
    /\ returned.op = "import_timeline_data"
    /\ returned.value = FALSE
    /\ Len(layers) = 2
    /\ layers[1].z_index > layers[2].z_index
    /\ total_duration = 12

\* C23: _render_layers takes the dual-image way (next image under the current
\* one, then return) only when image_transition.type is 'crossfade' and its
\* duration is positive; for every other type the refresh paints layer by
\* layer.
C23_DualDrawOnlyForCrossfade ==
    [][(PreviewSetCurrentTimeCall /\ returned'.value = "dual") =>
          (image_transition.type = "crossfade" /\ image_transition.duration > 0)]_vars

\* C25: a refresh of the preview changes no attribute of any layer, whatever
\* the time and the image_transition: export_timeline_data returns the same
\* before and after.
C25_RefreshLeavesTimeline ==
    [][PreviewSetCurrentTimeCall => export_timeline_data' = export_timeline_data]_vars

\* C24: a layer created by create_text_layer, create_image_layer or
\* create_box_layer, after any creations, removals, move_layer_up and
\* move_layer_down, is last in self.layers and its z_index is at least that of
\* every other layer.
C24_CreatedLayerOnTop ==
    [][(CreateTextLayerCall \/ CreateImageLayerCall \/ CreateBoxLayerCall) =>
          LET top == layers'[Len(layers')] IN
          /\ top.obj \notin ObjsOf(layers)
          /\ \A i \in DOMAIN layers' : layers'[i].z_index <= top.z_index]_vars

\* _build_ffmpeg_command, lines 307-412: the overlay stages of the images come
\* first in the filter chain and the ass stage with every Dialogue event last
ExportStage(layer_data) == IF Get(layer_data, "type", "") = "image" THEN 0 ELSE 1

\* the Layer field of the Dialogue event: 1 for the text of a text layer
\* (line 223), 0 for a box (line 243) and where there is no event
AssLayer(layer_data) == IF Get(layer_data, "type", "") = "text" THEN 1 ELSE 0

\* in the exported video the i-th entry of the snapshot is composited above
\* the j-th: a later stage, or in the same stage a higher Dialogue Layer, or
\* else the later overlay or event
ExportedAbove(entries, i, j) ==
    \/ ExportStage(entries[i]) > ExportStage(entries[j])
    \/ /\ ExportStage(entries[i]) = ExportStage(entries[j])
       /\ \/ AssLayer(entries[i]) > AssLayer(entries[j])
          \/ AssLayer(entries[i]) = AssLayer(entries[j]) /\ i > j

\* C26: in the export, of two layers shown at the same time the one with the
\* higher z_index is composited above the other, whatever their variants.
C26_ExportStacksByZIndex ==
    LET entries == export_timeline_data.layers IN
    \A i, j \in DOMAIN layers :
        (/\ layers[i].z_index > layers[j].z_index
         /\ \E time \in 0..MaxTime :
               ExportShows(entries[i], time) /\ ExportShows(entries[j], time))
            => ExportedAbove(entries, i, j)

\* ------------------------------------------------ the encoder command

\* os.path.exists(path) when _build_ffmpeg_command runs: gone are the files
\* removed since the layers were made; "" is no path at all
OnDisk(path, gone) == FileExists(path) /\ path \notin gone

\* _build_ffmpeg_command, lines 273-275: the entry gets an input of its own
TakenAsInput(layer_data, gone) ==
    /\ Get(layer_data, "type", "") = "image"
    /\ Get(layer_data, "image_path", "") # ""
    /\ OnDisk(layer_data.image_path, gone)

\* the loop over the entries with input_count advanced for a skipped image
\* too
RECURSIVE ImageInputsCountingSkipped(_, _, _)
ImageInputsCountingSkipped(entries, input_count, gone) ==
    IF entries = <<>> THEN <<>>
    ELSE IF TakenAsInput(Head(entries), gone)
         THEN <<[input_index |-> input_count, layer |-> Head(entries)]>>
                  \o ImageInputsCountingSkipped(Tail(entries), input_count + 1, gone)
         ELSE IF Get(Head(entries), "type", "") = "image"
              THEN ImageInputsCountingSkipped(Tail(entries), input_count + 1, gone)
              ELSE ImageInputsCountingSkipped(Tail(entries), input_count, gone)

\* _build_ffmpeg_command, lines 270-283: image_layers, each with the
\* input_count at which its file was added
RECURSIVE ImageInputs(_, _, _)
ImageInputs(entries, input_count, gone) ==
    IF entries = <<>> THEN <<>>
    ELSE IF TakenAsInput(Head(entries), gone)
         THEN <<[input_index |-> input_count, layer |-> Head(entries)]>>
                  \o ImageInputs(Tail(entries), input_count + 1, gone)
         ELSE ImageInputs(Tail(entries), input_count, gone)

\* the pads of the filter graph: [n:v], [bg], [img i], [v i], [vout]
InPad(n) == <<"in", n>>
BgPad == <<"bg", 0>>
ImgPad(i) == <<"img", i>>
VPad(i) == <<"v", i>>
VoutPad == <<"vout", 0>>

\* _build_ffmpeg_command, lines 306-397: the two stages written for the i-th
\* of image_layers and for those after it; current is current_filter
RECURSIVE OverlayStages(_, _, _)
OverlayStages(image_layers, i, current) ==
    IF i >= Len(image_layers) THEN <<>>
    ELSE LET layer == image_layers[i + 1].layer
             window == <<Get(layer, "start_time", 0), Get(layer, "end_time", 10)>>
         IN  <<[filter |-> "scale", reads |-> <<InPad(image_layers[i + 1].input_index)>>,
                writes |-> ImgPad(i), enable |-> <<>>],
               [filter |-> "overlay", reads |-> <<current, ImgPad(i)>>,
                writes |-> VPad(i), enable |-> window]>>
                 \o OverlayStages(image_layers, i + 1, VPad(i))

\* VideoRenderer._build_ffmpeg_command: the inputs in the order of their -i
\* arguments, the stages of -filter_complex in order and the pad of -map
build_ffmpeg_command(timeline_data, background_video, background_music, gone) ==
    LET has_bg == OnDisk(background_video, gone)
        has_music == OnDisk(background_music, gone)
        image_layers == ImageInputs(Get(timeline_data, "layers", <<>>), 1, gone)
        start == IF has_bg
                 THEN <<[filter |-> "scale", reads |-> <<InPad(0)>>,
                         writes |-> BgPad, enable |-> <<>>]>>
                 ELSE <<>>
        overlays == OverlayStages(image_layers, 0, IF has_bg THEN BgPad ELSE InPad(0))
        current == IF image_layers # <<>> THEN VPad(Len(image_layers) - 1)
                   ELSE IF has_bg THEN BgPad ELSE InPad(0)
        video_filters == start \o overlays \o
            <<[filter |-> "ass", reads |-> <<current>>, writes |-> VoutPad,
               enable |-> <<>>]>>
    IN  [inputs |->
            <<IF has_bg THEN [kind |-> "video", path |-> background_video]
              ELSE [kind |-> "lavfi", path |-> "color"]>>
            \o [k \in DOMAIN image_layers |->
                    [kind |-> "image", path |-> image_layers[k].layer.image_path]]
            \o (IF has_music THEN <<[kind |-> "audio", path |-> background_music]>>
                ELSE <<>>),
         filter_complex |-> video_filters,
         map |-> IF video_filters # <<>> THEN VoutPad ELSE <<>>]

\* _render_video_thread, lines 96-99: the command built from the snapshot of
\* the timeline, with or without a background video and music, some files
\* being gone
BuildFfmpegCommandCall ==
    /\ \E background_video \in {"", "bg.mp4"}, background_music \in {"", "music.mp3"},
          gone \in SUBSET {"p1.png", "bg.mp4"} :
          returned' = [op |-> "build_ffmpeg_command",
                       arg |-> [timeline_data |-> export_timeline_data, gone |-> gone],
                       value |-> build_ffmpeg_command(export_timeline_data,
                                     background_video, background_music, gone)]
    /\ UNCHANGED <<rvars, tvars, uvars>>

\* layers and sequences of images, and the command built for them
CommandNext ==
    \/ CreateTextLayerCall
    \/ CreateImageLayerCall
    \/ AddSequentialImagesCall
    \/ BuildFfmpegCommandCall

\* the stages that read the pad, once for every read
Readers(stages, pad) ==
    {km \in (DOMAIN stages) \X {1, 2} :
        km[2] \in DOMAIN stages[km[1]].reads /\ stages[km[1]].reads[km[2]] = pad}

\* the stages that write the pad
Writers(stages, pad) == {k \in DOMAIN stages : stages[k].writes = pad}

\* every pad is written once and read once, after it was written; an input
\* pad names a video input of the command
PadsWellFormed(cmd) ==
    LET stages == cmd.filter_complex IN
    /\ \A k \in DOMAIN stages :
          /\ Writers(stages, stages[k].writes) = {k}
          /\ IF stages[k].writes = VoutPad
             THEN k = Len(stages) /\ cmd.map = VoutPad
             ELSE Cardinality(Readers(stages, stages[k].writes)) = 1
          /\ \A m \in DOMAIN stages[k].reads :
                LET pad == stages[k].reads[m] IN
                /\ Cardinality(Readers(stages, pad)) = 1
                /\ IF pad[1] = "in"
                   THEN /\ pad[2] + 1 \in DOMAIN cmd.inputs
                        /\ cmd.inputs[pad[2] + 1].kind # "audio"
                   ELSE \E j \in 1..(k - 1) : stages[j].writes = pad
    /\ stages # <<>>
    /\ stages[Len(stages)].filter = "ass"
    /\ stages[Len(stages)].writes = VoutPad

\* the stages of the main chain: all but the scaling of an image
MainChain(cmd) == SelectSeq(cmd.filter_complex, LAMBDA st : st.writes[1] # "img")

\* the main chain starts at input 0 and every stage of it reads what the
\* stage before it wrote
ChainLinear(cmd) ==
    LET chain == MainChain(cmd) IN
    /\ chain[1].reads[1] = InPad(0)
    /\ \A k \in 2..Len(chain) : chain[k].reads[1] = chain[k - 1].writes

\* the j-th image entry whose file is there is scaled from the input that
\* carries its file and overlaid during its own window; the music is the
\* last input
ImagesAtTheirInputs(cmd, timeline_data, gone) ==
    LET usable == SelectSeq(timeline_data.layers, LAMBDA e : TakenAsInput(e, gone))
        scales == SelectSeq(cmd.filter_complex, LAMBDA st : st.writes[1] = "img")
        overlays == SelectSeq(cmd.filter_complex, LAMBDA st : st.filter = "overlay")
    IN
    /\ Len(scales) = Len(usable)
    /\ Len(overlays) = Len(usable)
    /\ \A j \in DOMAIN usable :
          LET idx == scales[j].reads[1][2] IN
          /\ scales[j].reads[1][1] = "in"
          /\ idx + 1 \in DOMAIN cmd.inputs
          /\ cmd.inputs[idx + 1] = [kind |-> "image", path |-> usable[j].image_path]
          /\ idx = j
          /\ overlays[j].reads[2] = scales[j].writes
          /\ overlays[j].enable = <<usable[j].start_time, usable[j].end_time>>
    /\ \A k \in DOMAIN cmd.inputs :
          /\ cmd.inputs[k].kind = "audio" => k = Len(cmd.inputs)
          /\ cmd.inputs[k].kind = "image" => k - 1 \in DOMAIN usable

\* C30: the filter graph _build_ffmpeg_command builds is a linear chain: each
\* image overlay reads the input at which the file of its image was added
\* (a skipped image shifts no index, the music comes after the images) and the
\* pad the stage before it wrote, the ass stage is last and writes the mapped
\* [vout], and every pad is written once and read once, after it was written.
C30_FilterGraphWellFormed ==
    returned.op = "build_ffmpeg_command" =>
        /\ PadsWellFormed(returned.value)
        /\ ChainLinear(returned.value)
        /\ ImagesAtTheirInputs(returned.value, returned.arg.timeline_data,
                               returned.arg.gone)

\* C30 witness: a command built over a background video and with music for a
\* snapshot of two images, the file of the first being gone: one overlay.
C30_Witness ==
    /\ returned.op = "build_ffmpeg_command"
    /\ Len(returned.arg.timeline_data.layers) = 2
    /\ \A i \in 1..2 : returned.arg.timeline_data.layers[i].type = "image"
    /\ ~TakenAsInput(returned.arg.timeline_data.layers[1], returned.arg.gone)
    /\ Len(returned.value.filter_complex) = 4
    /\ Len(returned.value.inputs) = 3
    /\ returned.value.inputs[3].kind = "audio"

\* every layer starts no later than it ends
WellTimed(ls) == \A i \in DOMAIN ls : ls[i].start_time <= ls[i].end_time

\* C29: when every layer has start_time <= end_time before an
\* add_sequential_images call, every layer, the text layers whose end_time
\* the call rewrites included, has start_time <= end_time after it.
C29_SequenceKeepsTiming ==
    [][(AddSequentialImagesCall /\ WellTimed(layers)) => WellTimed(layers')]_vars

\* C27: after any selections and deletions made through the canvas, the
\* layer panel or the main window, the selected layer of the canvas is None
\* or a layer that is in self.layers of the timeline and is the timeline's
\* selected layer.
C27_CanvasSelectionInTimeline ==
    \/ canvas_selected = NoLayer
    \/ /\ canvas_selected.obj \in ObjsOf(layers)
       /\ canvas_selected = selected_layer

\* C18: the value returned by export_timeline_data shares no mutable object
\* with the timeline, so that no later change to the timeline, its layers or
\* its image_transition shows in it: the dict under "image_transition" is not
\* the dict self.image_transition refers to.
C18_SnapshotSharesNothing ==
    returned.op = "export_timeline_data" =>
        returned.value.image_transition.obj # image_transition.obj

\* =====================================================================
\*                           specifications
\* =====================================================================

\* no query of the timeline was made yet
NoQuery == [op |-> "none", arg |-> 0, value |-> <<>>]

\* PreviewCanvas.__init__
CanvasInit ==
    /\ canvas_selected = NoLayer
    /\ canvas_time = 0

Init == RendererInit /\ TimelineInit /\ returned = NoQuery /\ CanvasInit

\* the export renderer alone
SpecRender == Init /\ [][RendererNext]_vars

\* the renderer with its threads scheduled
SpecRenderFair == Init /\ [][RendererNext]_vars /\ ThreadsScheduled

\* the timeline under the factories and remove_layer
SpecFactory == Init /\ [][FactoryNext]_vars

\* the timeline under the calls that bear on the selection
SpecSelection == Init /\ [][SelectionNext]_vars

\* the timeline under the calls that bear on the layer order
SpecOrder == Init /\ [][OrderNext]_vars

\* the timeline under the public mutation methods it is built with
SpecBuild == Init /\ [][BuildNext]_vars

\* the timeline under the calls that bear on which layers are shown
SpecVisible == Init /\ [][VisibleNext]_vars

\* the timeline under the calls that bear on image sequences
SpecSequence == Init /\ [][SequenceNext]_vars

\* the timeline under the calls that bear on image layers and their groups
SpecImages == Init /\ [][ImagesNext]_vars

\* the timeline under the calls that bear on a group of images
SpecGroup == Init /\ [][GroupNext]_vars

\* the timeline under the calls that assign its current time and duration
SpecClock == Init /\ [][ClockNext]_vars

\* the timeline and the encoder commands built from its snapshots
SpecCommand == Init /\ [][CommandNext]_vars

\* the timeline under layers of several timings and sequences of images
SpecTiming == Init /\ [][TimingNext]_vars

\* the timeline under the selections and deletions of the window
SpecWindow == Init /\ [][WindowNext]_vars

\* the timeline under creations, removals and moves in the z-order
SpecStack == Init /\ [][StackNext]_vars

\* the timeline shown in the preview canvas
SpecPreview == Init /\ [][PreviewNext]_vars

\* the timeline replaced by the contents of a project file
SpecOpen == Init /\ [][OpenNext]_vars

\* the timeline edited after an export
SpecExport == Init /\ [][ExportNext]_vars

====
